---- MODULE Spec2Model ----
(***************************************************************************)
(* Service-booking core of the Car-Selling backend (etop_backend).         *)
(*                                                                         *)
(* The model follows src/etop_backend/models.py (CustomerVehicle,          *)
(* ServiceBooking), views.py (the cancel / schedule / complete endpoints), *)
(* admin.py (the bulk actions and the change form) and signals.py (the     *)
(* daily reminder sweep).                                                  *)
(*                                                                         *)
(* Conventions:                                                            *)
(*  - A nullable column is a sequence: Null (<<>>) or Some(x) (<<x>>).     *)
(*  - `booking` and `vehicle` are the persisted rows.  A handler works on  *)
(*    an in-memory copy and the row changes only where the code calls      *)
(*    save() / update(); no handler opens a transaction.                   *)
(*  - is_scheduled is the derived property of models.py:1120; the writes   *)
(*    to `is_scheduled` in admin.py / signals.py name no column that       *)
(*    models.py stores and leave scheduled_date / scheduled_time alone.    *)
(*  - booking.vehicle is used by the ServiceBooking methods as a           *)
(*    CustomerVehicle (update_service_info); it is modelled as one.        *)
(*  - Mail dispatch is an input of the handler: TRUE when the transport    *)
(*    delivers, FALSE when it raises (caught by the sender's try/except).  *)
(***************************************************************************)
EXTENDS Integers, Sequences, FiniteSets, TLC

\* ------------------------------------------------------------------ bounds
MaxDay == 2
MaxOdoSteps == 2
MaxRuns == 2

\* ------------------------------------------------------- program constants
ServiceIntervalKm == 10000
ServiceIntervalDays == 365

\* ------------------------------------------------------------ value spaces
Null == <<>>
Some(x) == <<x>>

Bookings == {"b1", "b2"}
Schedules == {"s1", "s2"}
Requests == {"r1", "r2"}
Days == 1..MaxDay
Hours == {9}
Centers == {"center"}
Users == {"staff"}
Odometers == {k * (ServiceIntervalKm \div 2) : k \in 1..MaxOdoSteps}
Costs == {"none", "valid", "invalid"}

BOOKING_STATUS_CHOICES ==
    {"pending", "confirmed", "scheduled", "in_progress",
     "completed", "cancelled", "rescheduled", "no_show"}

VARIABLES
    booking,      \* ServiceBooking rows, by primary key
    vehicle,      \* the CustomerVehicle row the bookings reference
    today,        \* timezone.now().date()
    last,         \* the last handler that ran: what it was called with, how it ended
    schedule,     \* ScheduleService rows: scheduled_date and the bookings m2m
    todayMail,    \* 'today' reminders handed to send_mail, per booking
    tomorrowMail, \* 'tomorrow' reminders handed to send_mail, per booking
    todayDelivered, \* 'today' reminders send_mail delivered, per booking
    receivedMail, \* 'booking received' mails handed to the transport, per booking
    runs,         \* completed runs of send_daily_service_reminders
    pc,           \* position of each in-flight request (a complete call, a sweep run)
    req,          \* in-memory objects of each in-flight request
    veh0          \* the vehicle row as it was before the in-flight requests began

vars == <<booking, vehicle, today, last, schedule, todayMail, tomorrowMail,
          todayDelivered, receivedMail, runs, pc, req, veh0>>
dbVars == <<booking, vehicle>>
sweepVars == <<schedule, todayMail, tomorrowMail, todayDelivered, runs>>
reqVars == <<pc, req, veh0>>

\* ------------------------------------------------------------- the records
\* ServiceBooking field defaults (models.py:981-1048); exists = FALSE is a
\* primary key no row has yet.
NoBooking ==
    [exists |-> FALSE,
     status |-> "pending",
     service_type |-> "routine_maintenance",
     preferred_date |-> 1,
     scheduled_date |-> Null,
     scheduled_time |-> Null,
     scheduled_by |-> Null,
     scheduled_at |-> Null,
     service_center |-> Null,
     assigned_technician |-> Null,
     final_odometer |-> Null,
     completed_at |-> Null,
     completed_by |-> Null,
     total_cost |-> Null,
     warranty_covered |-> FALSE,
     priority |-> "normal",
     confirmation_sent |-> FALSE,
     reminder_sent |-> FALSE,
     follow_up_sent |-> FALSE]

\* CustomerVehicle warranty and service columns as a registered vehicle has
\* them by default (models.py:744-780: no warranty, not a NETA car, not
\* eligible for the 10,000 km service, the service columns unset), with the
\* odometer of a car registered new.  exists = FALSE is a row that was
\* deleted.
NewVehicle ==
    [exists |-> TRUE,
     current_odometer |-> 0,
     is_eligible_for_10000km_service |-> FALSE,
     is_neta_car |-> FALSE,
     has_warranty |-> FALSE,
     warranty_end_date |-> Null,
     last_service_date |-> Null,
     last_service_odometer |-> Null,
     last_service_type |-> Null,
     next_service_due_km |-> Null,
     next_service_due_date |-> Null]

\* ---------------------------------------------------------- pure functions
\* Variant: a cancelled booking may be scheduled again.
can_be_scheduled_cancelled(bk) ==
    bk.status \in {"pending", "confirmed", "rescheduled", "cancelled"}

can_be_scheduled(bk) == bk.status \in {"pending", "confirmed", "rescheduled"}

is_scheduled(bk) == bk.scheduled_date # Null /\ bk.scheduled_time # Null

\* Variant: a confirmed booking may be completed without a slot.
can_be_completed_confirmed(bk) ==
    bk.status \in {"confirmed", "scheduled", "in_progress"}

\* The guard of complete_service (models.py:1197).
can_be_completed(bk) == bk.status \in {"scheduled", "in_progress"}

\* The guard of the cancel endpoint (views.py:817).
can_be_cancelled(bk) == bk.status \in {"pending", "confirmed", "scheduled"}

\* get_service_type_display(), or the free text when the type is 'other'
\* (models.py:1214)
ServiceTypeLabel(bk) ==
    IF bk.service_type = "other" THEN "custom" ELSE bk.service_type

\* Variant: the warranty is over on its end date.
is_warranty_valid_strict(v, now) ==
    IF ~v.has_warranty \/ v.warranty_end_date = Null THEN FALSE
    ELSE now < v.warranty_end_date[1]

\* CustomerVehicle.is_warranty_valid (models.py:833-838).
is_warranty_valid(v, now) ==
    IF ~v.has_warranty \/ v.warranty_end_date = Null THEN FALSE
    ELSE now <= v.warranty_end_date[1]

\* CustomerVehicle.days_until_warranty_expires (models.py:840-846).
days_until_warranty_expires(v, now) ==
    IF ~is_warranty_valid(v, now) THEN 0
    ELSE IF v.warranty_end_date[1] - now > 0 THEN v.warranty_end_date[1] - now ELSE 0

\* bool() of a nullable integer column: None and 0 are both false.
Truthy(x) == x # Null /\ x[1] # 0

\* CustomerVehicle.kilometers_since_last_service (models.py:826-831).
kilometers_since_last_service(v) ==
    IF Truthy(v.last_service_odometer)
    THEN Some(v.current_odometer - v.last_service_odometer[1])
    ELSE Null

\* CustomerVehicle.needs_10000km_service (models.py:848-865).  A date is
\* always true as a condition; an integer is true when it is not 0.
needs_10000km_service(v, now) ==
    IF ~v.is_eligible_for_10000km_service THEN FALSE
    ELSE IF /\ Truthy(v.last_service_odometer) /\ v.current_odometer # 0
            /\ v.current_odometer - v.last_service_odometer[1] >= ServiceIntervalKm
         THEN TRUE
    ELSE IF /\ Truthy(v.next_service_due_km)
            /\ v.current_odometer >= v.next_service_due_km[1]
         THEN TRUE
    ELSE IF /\ v.next_service_due_date # Null
            /\ now >= v.next_service_due_date[1]
         THEN TRUE
    ELSE FALSE

\* Variant: the next service is due at the odometer of this service.
update_service_info_no_interval(v, service_type, odometer_after_service, now) ==
    [v EXCEPT !.last_service_date = Some(now),
              !.last_service_odometer = Some(odometer_after_service),
              !.last_service_type = Some(service_type),
              !.next_service_due_km = Some(odometer_after_service),
              !.next_service_due_date = Some(now + ServiceIntervalDays)]

\* Variant: a vehicle that has a due odometer gets it advanced by one
\* interval, from the value the copy was read with.
update_service_info_advance(v, service_type, odometer_after_service, now) ==
    [v EXCEPT !.last_service_date = Some(now),
              !.last_service_odometer = Some(odometer_after_service),
              !.last_service_type = Some(service_type),
              !.next_service_due_km =
                    IF @ # Null THEN Some(@[1] + ServiceIntervalKm)
                    ELSE Some(odometer_after_service + ServiceIntervalKm),
              !.next_service_due_date = Some(now + ServiceIntervalDays)]

update_service_info(v, service_type, odometer_after_service, now) ==
    [v EXCEPT !.last_service_date = Some(now),
              !.last_service_odometer = Some(odometer_after_service),
              !.last_service_type = Some(service_type),
              !.next_service_due_km = Some(odometer_after_service + ServiceIntervalKm),
              !.next_service_due_date = Some(now + ServiceIntervalDays)]

\* Variant: scheduling a booking that is scheduled already marks it
\* rescheduled.
ScheduleFields_rescheduled(bk, date, time, by, center, now) ==
    [bk EXCEPT !.scheduled_date = Some(date),
               !.scheduled_time = Some(time),
               !.scheduled_by = Some(by),
               !.scheduled_at = Some(now),
               !.status = IF @ = "scheduled" THEN "rescheduled" ELSE "scheduled",
               !.service_center = IF center # Null THEN center ELSE @]

\* Variant: a new slot asks for new reminders.
ScheduleFields_remind_again(bk, date, time, by, center, now) ==
    [bk EXCEPT !.scheduled_date = Some(date),
               !.scheduled_time = Some(time),
               !.scheduled_by = Some(by),
               !.scheduled_at = Some(now),
               !.status = "scheduled",
               !.service_center = IF center # Null THEN center ELSE @,
               !.reminder_sent = FALSE,
               !.follow_up_sent = FALSE]

\* Variant: scheduling confirms the booking.
ScheduleFields_confirmed(bk, date, time, by, center, now) ==
    [bk EXCEPT !.scheduled_date = Some(date),
               !.scheduled_time = Some(time),
               !.scheduled_by = Some(by),
               !.scheduled_at = Some(now),
               !.status = "confirmed",
               !.service_center = IF center # Null THEN center ELSE @]

\* Variant: the time of the slot is not assigned.
ScheduleFields_no_time(bk, date, time, by, center, now) ==
    [bk EXCEPT !.scheduled_date = Some(date),
               !.scheduled_by = Some(by),
               !.scheduled_at = Some(now),
               !.status = "scheduled",
               !.service_center = IF center # Null THEN center ELSE @]

\* The in-memory assignments of schedule_service (models.py:1145-1152).
ScheduleFields(bk, date, time, by, center, now) ==
    [bk EXCEPT !.scheduled_date = Some(date),
               !.scheduled_time = Some(time),
               !.scheduled_by = Some(by),
               !.scheduled_at = Some(now),
               !.status = "scheduled",
               !.service_center = IF center # Null THEN center ELSE @]

\* The in-memory assignments of complete_service (models.py:1200-1211).
CompleteFields(bk, technician, final_odometer, cost, now) ==
    [bk EXCEPT !.assigned_technician = Some(technician),
               !.final_odometer = Some(final_odometer),
               !.completed_at = Some(now),
               !.completed_by = Some(technician),
               !.status = "completed",
               !.total_cost = IF cost # "none" THEN Some(cost) ELSE @]

\* send_schedule_confirmation (models.py:1260-1307): nothing without a
\* scheduled_datetime; confirmation_sent is saved only after a delivery.
SendScheduleConfirmation(bk, delivered) ==
    IF is_scheduled(bk) /\ delivered
    THEN [bk EXCEPT !.confirmation_sent = TRUE]
    ELSE bk

\* ServiceBooking.save (models.py:1384-1405) of an existing row: the row is
\* written, then a change of status to 'scheduled' sends the confirmation.
\* The result is the sequence of rows the call persists, in order.
SaveWrites(old, new, delivered) ==
    IF old.status # "scheduled" /\ new.status = "scheduled"
       /\ SendScheduleConfirmation(new, delivered) # new
    THEN <<new, SendScheduleConfirmation(new, delivered)>>
    ELSE <<new>>

Last(s) == s[Len(s)]

\* schedule_service after its guard (models.py:1145-1157): save(), then the
\* explicit send_schedule_confirmation().
ScheduleWrites(bk, date, time, by, center, now, m1, m2) ==
    LET first == SaveWrites(bk, ScheduleFields(bk, date, time, by, center, now), m1)
        after == SendScheduleConfirmation(Last(first), m2)
    IN  IF after # Last(first) THEN Append(first, after) ELSE first

\* The 'schedule confirmed' mails one schedule_service call hands to the
\* transport: save() calls send_schedule_confirmation when the status
\* changed to 'scheduled' (models.py:1399-1401), schedule_service calls it
\* again (models.py:1157); each call sends when the slot is set
\* (models.py:1262-1263, 1296).
ScheduleDispatches(bk, date, time, by, center, now) ==
    LET new == ScheduleFields(bk, date, time, by, center, now)
        in_save == IF bk.status # "scheduled" /\ new.status = "scheduled"
                      /\ is_scheduled(new)
                   THEN 1 ELSE 0
        explicit == IF is_scheduled(new) THEN 1 ELSE 0
    IN  in_save + explicit

\* DecimalField.to_python on total_cost while the row is written: a value
\* that is no decimal makes save() raise (views.py:1015 passes it unchecked).
BookingSaveRaises(cost) == cost = "invalid"

\* What `last` keeps of a handler call: the handler, the booking it was
\* called on, whether it returned (ok) or raised / answered 400, and, of
\* each row it persisted (for a batch form: of each chosen member as it was
\* found), <<status, is_scheduled>>.
NoCall == [op |-> "none", b |-> "none", ok |-> TRUE, writes |-> <<>>]
Call(op, b, ok, writes) == [op |-> op, b |-> b, ok |-> ok, writes |-> writes]
Seen(w) == [i \in 1..Len(w) |-> <<w[i].status, is_scheduled(w[i])>>]

\* What `last` keeps of a schedule_service call: also the number of
\* 'schedule confirmed' mails it handed to the transport.
ScheduleCall(b, ok, writes, confirmations) ==
    [op |-> "schedule", b |-> b, ok |-> ok, writes |-> writes,
     confirmations |-> confirmations]

\* ------------------------------------------------------------------- Init
IdleReq == [odo |-> 0, cost |-> "none", obj |-> NoBooking, veh |-> NewVehicle]

\* A ScheduleService primary key no row has yet.
NoSchedule ==
    [exists |-> FALSE, scheduled_date |-> 1, scheduled_time |-> 9,
     service_center |-> Null, scheduled_by |-> Null, bookings |-> {}]

NoSchedules == [s \in Schedules |-> NoSchedule]
NoMail == [b \in Bookings |-> 0]

IdleRequests ==
    /\ pc = [r \in Requests |-> "idle"]
    /\ req = [r \in Requests |-> IdleReq]
    /\ veh0 = vehicle

IdleSweep ==
    /\ schedule = NoSchedules
    /\ todayMail = NoMail
    /\ tomorrowMail = NoMail
    /\ todayDelivered = NoMail
    /\ receivedMail = NoMail
    /\ runs = 0

\* An empty booking table and a registered vehicle that was never serviced.
Init ==
    /\ booking = [b \in {"b1"} |-> NoBooking]
    /\ vehicle = NewVehicle
    /\ today \in Days
    /\ last = NoCall
    /\ IdleSweep
    /\ IdleRequests

\* ---------------------------------------------------------------- actions
\* The creation endpoints: "authenticated" is ServiceBookingViewSet.create
\* with ServiceBookingCreateSerializer (views.py:789-792), "public" is
\* PublicServiceBookingView with PublicServiceBookingSerializer
\* (views.py:827-843).
CreatePaths == {"authenticated", "public"}

\* What the post_save receiver notify_service_managers_on_service_created
\* (signals.py:222-281) meets: no active service manager, a mail that is
\* delivered, or send_mail raising (fail_silently = False, no try).
ManagerMail == {"none", "delivered", "raises"}

\* validate() of the serializer of the path: only the public serializer
\* compares preferred_date with today (serializers.py:773-777, 841-846).
CreateValidates(path, pref, now) == path = "public" => pref >= now

\* The row ServiceBooking.objects.create inserts (serializers.py:790, 904):
\* the column defaults and the validated fields.  The save() in force is
\* the second definition (models.py:1384-1405); it does not call the
\* eligibility checks of the first one.
NewRow(service_type, pref) ==
    [NoBooking EXCEPT !.exists = TRUE, !.service_type = service_type,
                      !.preferred_date = pref]

\* What `last` keeps of a creation request.
CreateCall(b, ok, path, pref, now) ==
    [op |-> "create", b |-> b, ok |-> ok, writes |-> <<>>, path |-> path,
     past |-> pref < now, valid |-> CreateValidates(path, pref, now)]

\* Variant: the save() in force is the first definition (models.py:1067-1083),
\* which copies the odometer reading of the booking to the vehicle.
CreateBooking_first_save(b, path, service_type, pref, managers) ==
    /\ vehicle.exists
    /\ ~booking[b].exists
    /\ IF ~CreateValidates(path, pref, today)
       THEN /\ UNCHANGED <<booking, vehicle, receivedMail>>
            /\ last' = CreateCall(b, FALSE, path, pref, today)
       ELSE /\ booking' = [booking EXCEPT ![b] = NewRow(service_type, pref)]
            /\ vehicle' = [vehicle EXCEPT !.current_odometer = ServiceIntervalKm]
            /\ IF managers = "raises"
               THEN /\ receivedMail' = receivedMail
                    /\ last' = CreateCall(b, FALSE, path, pref, today)
               ELSE /\ receivedMail' = [receivedMail EXCEPT ![b] =
                            @ + (IF path = "public" THEN 2 ELSE 1)]
                    /\ last' = CreateCall(b, TRUE, path, pref, today)
    /\ UNCHANGED <<today, sweepVars, reqVars>>

\* A creation request for a vehicle that exists.  The row is inserted, then
\* the post_save receivers run; when the mail to the service managers raises, the exception leaves
\* save() and the request fails, the row staying inserted.  Otherwise save()
\* sends the 'booking received' mail (models.py:1396-1397) and the public
\* serializer sends its own (serializers.py:907-911).
CreateBooking(b, path, service_type, pref, managers) ==
    /\ vehicle.exists
    /\ ~booking[b].exists
    /\ IF ~CreateValidates(path, pref, today)
       THEN /\ UNCHANGED <<booking, receivedMail>>
            /\ last' = CreateCall(b, FALSE, path, pref, today)
       ELSE /\ booking' = [booking EXCEPT ![b] = NewRow(service_type, pref)]
            /\ IF managers = "raises"
               THEN /\ receivedMail' = receivedMail
                    /\ last' = CreateCall(b, FALSE, path, pref, today)
               ELSE /\ receivedMail' = [receivedMail EXCEPT ![b] =
                            @ + (IF path = "public" THEN 2 ELSE 1)]
                    /\ last' = CreateCall(b, TRUE, path, pref, today)
    /\ UNCHANGED <<vehicle, today, sweepVars, reqVars>>

\* An authenticated creation of a routine maintenance booking.
Create(b, pref) ==
    CreateBooking(b, "authenticated", "routine_maintenance", pref, "none")

\* ServiceBooking.schedule_service (models.py:1140-1157).
ScheduleService(b, date, time, by, center, m1, m2) ==
    /\ booking[b].exists
    /\ IF ~can_be_scheduled(booking[b])
       THEN /\ booking' = booking
            /\ last' = ScheduleCall(b, FALSE, <<>>, 0)
       ELSE LET w == ScheduleWrites(booking[b], date, time, by, center, today, m1, m2)
            IN  /\ booking' = [booking EXCEPT ![b] = Last(w)]
                /\ last' = ScheduleCall(b, TRUE, Seen(w),
                        ScheduleDispatches(booking[b], date, time, by, center, today))
    /\ UNCHANGED <<vehicle, today, receivedMail, sweepVars, reqVars>>

\* ServiceBooking.complete_service (models.py:1195-1220), called by
\* AdminServiceBookingViewSet.complete (views.py:1009-1040), which answers
\* 400 to whatever it raises.
CompleteService(b, technician, final_odometer, cost) ==
    /\ booking[b].exists
    /\ IF ~can_be_completed(booking[b])
       THEN /\ UNCHANGED dbVars
            /\ last' = Call("complete", b, FALSE, <<>>)
       ELSE /\ vehicle' = update_service_info(vehicle, ServiceTypeLabel(booking[b]),
                                              final_odometer, today)
            /\ IF BookingSaveRaises(cost)
               THEN /\ booking' = booking
                    /\ last' = Call("complete", b, FALSE, <<>>)
               ELSE /\ booking' = [booking EXCEPT ![b] =
                            CompleteFields(@, technician, final_odometer, cost, today)]
                    /\ last' = Call("complete", b, TRUE, <<>>)
    /\ UNCHANGED <<today, receivedMail, sweepVars, reqVars>>

\* ServiceBookingViewSet.cancel (views.py:813-825).
Cancel(b) ==
    /\ booking[b].exists
    /\ IF ~can_be_cancelled(booking[b])
       THEN /\ booking' = booking
            /\ last' = Call("cancel", b, FALSE, <<>>)
       ELSE /\ booking' = [booking EXCEPT ![b].status = "cancelled"]
            /\ last' = Call("cancel", b, TRUE, <<>>)
    /\ UNCHANGED <<vehicle, today, receivedMail, sweepVars, reqVars>>

\* ServiceBookingAdmin.mark_as_scheduled (admin.py:497-499): queryset.update,
\* no save() and no signal.
MarkAsScheduled(b) ==
    /\ booking[b].exists
    /\ booking' = [booking EXCEPT ![b].status = "scheduled"]
    /\ last' = Call("mark_as_scheduled", b, TRUE, <<>>)
    /\ UNCHANGED <<vehicle, today, receivedMail, sweepVars, reqVars>>

\* ServiceBookingAdmin.mark_as_completed (admin.py:501-508).
MarkAsCompleted(b, by) ==
    /\ booking[b].exists
    /\ booking' = [booking EXCEPT ![b].status = "completed",
                                  ![b].completed_at = Some(today),
                                  ![b].completed_by = Some(by)]
    /\ last' = Call("mark_as_completed", b, TRUE, <<>>)
    /\ UNCHANGED <<vehicle, today, receivedMail, sweepVars, reqVars>>

\* The admin change form (admin.py:452-459 lists 'status' as editable):
\* the chosen status is saved through ServiceBooking.save.
AdminChangeStatus(b, s, m) ==
    /\ booking[b].exists
    /\ booking' = [booking EXCEPT ![b] =
            Last(SaveWrites(@, [@ EXCEPT !.status = s], m))]
    /\ last' = Call("admin_change", b, TRUE, <<>>)
    /\ UNCHANGED <<vehicle, today, receivedMail, sweepVars, reqVars>>

Next ==
    \/ \E b \in DOMAIN booking, pref \in today..MaxDay : Create(b, pref)
    \/ \E b \in DOMAIN booking, d \in Days, t \in Hours, by \in Users,
          c \in {Null} \cup {Some(x) : x \in Centers}, m1 \in BOOLEAN, m2 \in BOOLEAN :
            ScheduleService(b, d, t, by, c, m1, m2)
    \/ \E b \in DOMAIN booking, by \in Users, f \in Odometers, cost \in Costs :
            CompleteService(b, by, f, cost)
    \/ \E b \in DOMAIN booking : Cancel(b)
    \/ \E b \in DOMAIN booking : MarkAsScheduled(b)
    \/ \E b \in DOMAIN booking, by \in Users : MarkAsCompleted(b, by)
    \/ \E b \in DOMAIN booking, s \in BOOKING_STATUS_CHOICES, m \in BOOLEAN :
            AdminChangeStatus(b, s, m)

Spec == Init /\ [][Next]_vars

\* ------------------------------------------------------ booking creation
\* The creation endpoints with everything they take, on a vehicle that may
\* be a NETA car and may be under warranty, followed by the operations that
\* save the booking again (complete_service with a well-formed cost).
InitCreate ==
    /\ today = 1
    /\ booking = [b \in {"b1"} |-> NoBooking]
    /\ \E neta \in BOOLEAN :
       \E w \in {<<FALSE, Null>>, <<TRUE, Some(today - 1)>>, <<TRUE, Some(today + 10)>>} :
            vehicle = [NewVehicle EXCEPT !.is_neta_car = neta,
                                         !.has_warranty = w[1],
                                         !.warranty_end_date = w[2]]
    /\ last = NoCall
    /\ IdleSweep
    /\ IdleRequests

NextCreate ==
    \/ \E b \in DOMAIN booking, path \in CreatePaths,
          st \in {"routine_maintenance", "neta_warranty"},
          pref \in (today - 1)..today, managers \in ManagerMail :
            CreateBooking(b, path, st, pref, managers)
    \/ \E b \in DOMAIN booking, d \in Days, t \in Hours, by \in Users,
          m1 \in BOOLEAN, m2 \in BOOLEAN :
            ScheduleService(b, d, t, by, Null, m1, m2)
    \/ \E b \in DOMAIN booking, by \in Users, f \in Odometers,
          cost \in Costs \ {"invalid"} :
            CompleteService(b, by, f, cost)
    \/ \E b \in DOMAIN booking : Cancel(b)
    \/ \E b \in DOMAIN booking, s \in BOOKING_STATUS_CHOICES, m \in BOOLEAN :
            AdminChangeStatus(b, s, m)

SpecCreate == InitCreate /\ [][NextCreate]_vars

\* ------------------------------------------- interleaved complete requests
\* Two complete requests, one per booking of the same vehicle, run by two
\* workers.  Each statement that reads or writes a row is a step of its own.
BookingOf(r) == IF r = "r1" THEN "b1" ELSE "b2"

\* A created booking after schedule_service, as the requests find it.
OpenRow(st, d, now) ==
    [ScheduleFields([NoBooking EXCEPT !.exists = TRUE], d, 9, "staff", Null, now)
        EXCEPT !.status = st]

InitConc ==
    /\ today \in Days
    /\ booking \in [Bookings -> {OpenRow(st, today, today) :
                                    st \in {"scheduled", "in_progress", "pending"}}]
    /\ vehicle \in {NewVehicle} \cup
                   {update_service_info(NewVehicle, "routine_maintenance", f, today) :
                        f \in Odometers}
    /\ last = NoCall
    /\ IdleSweep
    /\ IdleRequests

\* AdminServiceBookingViewSet.complete (views.py:1011-1015): get_object()
\* reads the booking row, the request carries final_odometer and total_cost.
ReqBegin(r, final_odometer, cost) ==
    /\ pc[r] = "idle"
    /\ req' = [req EXCEPT ![r] = [odo |-> final_odometer, cost |-> cost,
                                  obj |-> booking[BookingOf(r)], veh |-> NewVehicle]]
    /\ pc' = [pc EXCEPT ![r] = "guard"]
    /\ UNCHANGED <<dbVars, today, receivedMail, last, sweepVars, veh0>>

\* complete_service, models.py:1197-1211: the guard, then the assignments
\* to the in-memory booking.
ReqGuard(r) ==
    /\ pc[r] = "guard"
    /\ IF ~can_be_completed(req[r].obj)
       THEN /\ pc' = [pc EXCEPT ![r] = "failed"]
            /\ req' = req
       ELSE /\ pc' = [pc EXCEPT ![r] = "load"]
            /\ req' = [req EXCEPT ![r].obj =
                    CompleteFields(@, "staff", req[r].odo, req[r].cost, today)]
    /\ UNCHANGED <<dbVars, today, receivedMail, last, sweepVars, veh0>>

\* models.py:1215 and 869-873: self.vehicle reads the vehicle row, and
\* update_service_info assigns to that copy.
ReqLoadVehicle(r) ==
    /\ pc[r] = "load"
    /\ req' = [req EXCEPT ![r].veh =
            update_service_info(vehicle, ServiceTypeLabel(req[r].obj), req[r].odo, today)]
    /\ pc' = [pc EXCEPT ![r] = "vehicle_save"]
    /\ UNCHANGED <<dbVars, today, receivedMail, last, sweepVars, veh0>>

\* models.py:874: vehicle.save() writes every column of the copy.
ReqSaveVehicle(r) ==
    /\ pc[r] = "vehicle_save"
    /\ vehicle' = req[r].veh
    /\ pc' = [pc EXCEPT ![r] = "booking_save"]
    /\ UNCHANGED <<booking, today, receivedMail, last, sweepVars, req, veh0>>

\* models.py:1217: self.save() writes the booking row, or raises.
ReqSaveBooking(r) ==
    /\ pc[r] = "booking_save"
    /\ IF BookingSaveRaises(req[r].cost)
       THEN /\ pc' = [pc EXCEPT ![r] = "failed"]
            /\ booking' = booking
       ELSE /\ pc' = [pc EXCEPT ![r] = "done"]
            /\ booking' = [booking EXCEPT ![BookingOf(r)] = req[r].obj]
    /\ UNCHANGED <<vehicle, today, receivedMail, last, sweepVars, req, veh0>>

NextConc ==
    \/ \E r \in Requests, f \in Odometers, cost \in Costs : ReqBegin(r, f, cost)
    \/ \E r \in Requests : ReqGuard(r)
    \/ \E r \in Requests : ReqLoadVehicle(r)
    \/ \E r \in Requests : ReqSaveVehicle(r)
    \/ \E r \in Requests : ReqSaveBooking(r)

SpecConc == InitConc /\ [][NextConc]_vars

\* ------------------------------------------------------ the reminder sweep
RECURSIVE SeqOf(_)
SeqOf(S) ==
    IF S = {} THEN <<>>
    ELSE LET x == CHOOSE y \in S : TRUE IN <<x>> \o SeqOf(S \ {x})

RECURSIVE Flatten(_)
Flatten(ss) == IF ss = <<>> THEN <<>> ELSE Head(ss) \o Flatten(Tail(ss))

\* ScheduleService.objects.filter(scheduled_date=day).prefetch_related(
\* 'bookings') (signals.py:523-529), as the loops walk it: one entry per
\* (schedule, member) and, for each entry, an instance of its own.
SchedulePairs(sched, day) ==
    LET ss == SeqOf({s \in DOMAIN sched : sched[s].exists /\ sched[s].scheduled_date = day})
    IN  Flatten([i \in 1..Len(ss) |->
            LET bs == SeqOf(sched[ss[i]].bookings)
            IN  [j \in 1..Len(bs) |-> <<ss[i], bs[j]>>]])

\* The loops over the batches (signals.py:533-555).  `snap` are the rows
\* the prefetch read; each entry tests its own copy, then the mail goes out
\* and save(update_fields=[flag]) writes the flag column of the row.
RECURSIVE BatchPass(_, _, _, _, _)
BatchPass(pairs, snap, db, mail, flag) ==
    IF pairs = <<>> THEN [db |-> db, mail |-> mail]
    ELSE LET b == Head(pairs)[2]
         IN  IF ~snap[b][flag] /\ snap[b].status = "scheduled"
             THEN BatchPass(Tail(pairs), snap,
                            [db EXCEPT ![b][flag] = TRUE],
                            [mail EXCEPT ![b] = @ + 1], flag)
             ELSE BatchPass(Tail(pairs), snap, db, mail, flag)

\* The bookings the individual pass selects (signals.py:559-564, 575-580).
IndividualBookings(db, day, flag) ==
    {b \in DOMAIN db :
        /\ db[b].exists
        /\ db[b].preferred_date = day
        /\ ~db[b][flag]
        /\ db[b].status \in {"scheduled", "confirmed"}
        /\ ~is_scheduled(db[b])}

\* The loop over them (signals.py:566-573, 582-589).
IndividualPass(db, mail, day, flag) ==
    LET sel == IndividualBookings(db, day, flag)
    IN  [db |-> [b \in DOMAIN db |-> IF b \in sel THEN [db[b] EXCEPT ![flag] = TRUE] ELSE db[b]],
         mail |-> [b \in DOMAIN mail |-> IF b \in sel THEN mail[b] + 1 ELSE mail[b]]]

\* A booking table and batches as the sweep can find them: bookings that
\* were scheduled or confirmed, batches for today, tomorrow or later, no
\* reminder sent yet; a member of a batch has had the batch's slot applied.
SweepRow(st, sched, pref, now) ==
    IF sched THEN [OpenRow(st, now, now) EXCEPT !.preferred_date = pref]
    ELSE [NoBooking EXCEPT !.exists = TRUE, !.status = st, !.preferred_date = pref]

InitSweep ==
    /\ today \in Days
    /\ booking \in [Bookings -> {SweepRow(st, sc, pref, today) :
                        st \in {"scheduled", "confirmed"}, sc \in BOOLEAN,
                        pref \in today..(today + 1)}]
    /\ schedule \in [Schedules -> [exists : {TRUE},
                                   scheduled_date : today..(today + 2),
                                   scheduled_time : {9},
                                   service_center : {Null},
                                   scheduled_by : {Some("staff")},
                                   bookings : SUBSET Bookings]]
    /\ \A s \in Schedules : \A b \in schedule[s].bookings : is_scheduled(booking[b])
    /\ vehicle = NewVehicle
    /\ last = NoCall
    /\ todayMail = NoMail
    /\ tomorrowMail = NoMail
    /\ todayDelivered = NoMail
    /\ receivedMail = NoMail
    /\ runs = 0
    /\ IdleRequests

\* send_daily_service_reminders (signals.py:513-592), one whole run.
\* `undelivered` are the recipients for which send_mail raises during the
\* run; send_today_service_plain_email catches that (signals.py:437-447)
\* and the caller goes on to set the flag.
SendDailyServiceReminders(undelivered) ==
    /\ runs < MaxRuns
    /\ LET p1 == BatchPass(SchedulePairs(schedule, today), booking,
                           booking, todayMail, "reminder_sent")
           p2 == BatchPass(SchedulePairs(schedule, today + 1), p1.db,
                           p1.db, tomorrowMail, "follow_up_sent")
           p3 == IndividualPass(p2.db, p1.mail, today, "reminder_sent")
           p4 == IndividualPass(p3.db, p2.mail, today + 1, "follow_up_sent")
       IN  /\ booking' = p4.db
           /\ todayMail' = p3.mail
           /\ tomorrowMail' = p4.mail
           /\ todayDelivered' = [b \in Bookings |->
                    IF b \in undelivered THEN todayDelivered[b]
                    ELSE todayDelivered[b] + (p3.mail[b] - todayMail[b])]
    /\ runs' = runs + 1
    /\ last' = Call("sweep", "none", TRUE, <<>>)
    /\ UNCHANGED <<vehicle, today, receivedMail, schedule, reqVars>>

NextSweep == \E undelivered \in SUBSET Bookings : SendDailyServiceReminders(undelivered)

SpecSweep == InitSweep /\ [][NextSweep]_vars

\* ------------------------------------------------- overlapping sweep runs
\* Two runs of send_daily_service_reminders started by the external
\* scheduler.  A run goes through four loops (batches of today, batches of
\* tomorrow, individual bookings of today, of tomorrow); a loop evaluates
\* its queryset when it starts and then handles one entry per step.
SweepFlag(phase) == IF phase \in {1, 3} THEN "reminder_sent" ELSE "follow_up_sent"

SweepDay(phase, now) == IF phase \in {1, 3} THEN now ELSE now + 1

\* The entries a loop walks, as its queryset finds them (signals.py:523-529,
\* 559-564, 575-580).
SweepTodo(phase, db, sched, now) ==
    IF phase <= 2
    THEN LET pairs == SchedulePairs(sched, SweepDay(phase, now))
         IN  [i \in 1..Len(pairs) |-> pairs[i][2]]
    ELSE SeqOf(IndividualBookings(db, SweepDay(phase, now), SweepFlag(phase)))

\* Whether the loop body sends (signals.py:535, 547): a batch entry tests
\* the flag and the status of its prefetched copy; the individual loops send
\* to whatever the query selected.
SweepSends(phase, copy, row) ==
    \/ phase >= 3
    \/ ~copy[SweepFlag(phase)] /\ copy.status = "scheduled"

IdleRun == [phase |-> 0, snap |-> <<>>, todo |-> <<>>]

\* The table the runs find: as for the whole-run sweep, with batches for
\* today or tomorrow and every booking in at most one batch.
InitRuns ==
    /\ today \in Days
    /\ booking \in [Bookings -> {SweepRow(st, sc, pref, today) :
                        st \in {"scheduled", "confirmed"}, sc \in BOOLEAN,
                        pref \in today..(today + 1)}]
    /\ schedule \in [Schedules -> [exists : {TRUE},
                                   scheduled_date : today..(today + 1),
                                   scheduled_time : {9},
                                   service_center : {Null},
                                   scheduled_by : {Some("staff")},
                                   bookings : SUBSET Bookings]]
    /\ \A s \in Schedules : \A b \in schedule[s].bookings : is_scheduled(booking[b])
    /\ \A s1 \in Schedules, s2 \in Schedules :
            s1 # s2 => schedule[s1].bookings \cap schedule[s2].bookings = {}
    /\ vehicle = NewVehicle
    /\ last = NoCall
    /\ todayMail = NoMail
    /\ tomorrowMail = NoMail
    /\ todayDelivered = NoMail
    /\ receivedMail = NoMail
    /\ runs = 0
    /\ pc = [r \in Requests |-> "idle"]
    /\ req = [r \in Requests |-> IdleRun]
    /\ veh0 = vehicle

\* signals.py:519-533: the run starts and the first loop evaluates its
\* queryset, prefetching the members.
SweepBegin(r) ==
    /\ pc[r] = "idle"
    /\ pc' = [pc EXCEPT ![r] = "run"]
    /\ req' = [req EXCEPT ![r] = [phase |-> 1, snap |-> booking,
                                  todo |-> SweepTodo(1, booking, schedule, today)]]
    /\ UNCHANGED <<dbVars, today, receivedMail, last, sweepVars, veh0>>

\* One pass of a loop body (signals.py:535-542, 547-554, 566-573, 582-589):
\* the test, the mail (caught when the transport raises) and
\* save(update_fields=[flag]), which writes the flag column of the row.
SweepEntry(r, delivered) ==
    /\ pc[r] = "run"
    /\ req[r].todo # <<>>
    /\ LET b == Head(req[r].todo)
           phase == req[r].phase
           flag == SweepFlag(phase)
       IN  IF SweepSends(phase, req[r].snap[b], booking[b])
           THEN /\ booking' = [booking EXCEPT ![b][flag] = TRUE]
                /\ todayMail' = IF flag = "reminder_sent"
                                THEN [todayMail EXCEPT ![b] = @ + 1] ELSE todayMail
                /\ tomorrowMail' = IF flag = "follow_up_sent"
                                   THEN [tomorrowMail EXCEPT ![b] = @ + 1] ELSE tomorrowMail
                /\ todayDelivered' = IF flag = "reminder_sent" /\ delivered
                                     THEN [todayDelivered EXCEPT ![b] = @ + 1]
                                     ELSE todayDelivered
           ELSE UNCHANGED <<booking, todayMail, tomorrowMail, todayDelivered>>
    /\ req' = [req EXCEPT ![r].todo = Tail(@)]
    /\ last' = Call("sweep_entry", Head(req[r].todo), TRUE, <<>>)
    /\ UNCHANGED <<vehicle, today, receivedMail, schedule, runs, pc, veh0>>

\* A loop is through: the next one evaluates its queryset, or the run ends.
SweepNextPhase(r) ==
    /\ pc[r] = "run"
    /\ req[r].todo = <<>>
    /\ IF req[r].phase < 4
       THEN /\ req' = [req EXCEPT ![r] =
                    [phase |-> @.phase + 1, snap |-> booking,
                     todo |-> SweepTodo(@.phase + 1, booking, schedule, today)]]
            /\ UNCHANGED <<pc, runs>>
       ELSE /\ pc' = [pc EXCEPT ![r] = "done"]
            /\ runs' = runs + 1
            /\ req' = req
    /\ UNCHANGED <<dbVars, today, receivedMail, last, schedule, todayMail, tomorrowMail,
                   todayDelivered, veh0>>

NextRuns ==
    \/ \E r \in Requests : SweepBegin(r)
    \/ \E r \in Requests, delivered \in BOOLEAN : SweepEntry(r, delivered)
    \/ \E r \in Requests : SweepNextPhase(r)

SpecRuns == InitRuns /\ [][NextRuns]_vars

\* ------------------------------------------------------- ScheduleService
\* A ScheduleService batch and the admin form that creates and edits it.
\* ScheduleService.apply_schedule is not part of the sources at hand; it is
\* taken from the specification (section 4.3): every booking of the batch
\* goes through the schedule transition with the batch's date, time, center
\* and creator, whatever its status, and through the same notification path.
ApplyRow(bk, sch, now, delivered) ==
    Last(ScheduleWrites(bk, sch.scheduled_date, sch.scheduled_time,
                        sch.scheduled_by[1], sch.service_center, now,
                        delivered, delivered))

apply_schedule(db, sch, now, undelivered) ==
    [b \in DOMAIN db |->
        IF b \in sch.bookings THEN ApplyRow(db[b], sch, now, b \notin undelivered)
        ELSE db[b]]

\* The tables a handler chain works on.
Tables(db, tm, tmr, td) == [db |-> db, today |-> tm, tomorrow |-> tmr, delivered |-> td]

\* check_and_send_service_reminders (signals.py:339-367): every member of
\* the batch, with the batch's date and the member's flag as the only tests.
check_and_send_service_reminders(st, sch, now, undelivered) ==
    LET sendsToday(b) == /\ b \in sch.bookings
                         /\ sch.scheduled_date = now
                         /\ ~st.db[b].reminder_sent
        sendsTomorrow(b) == /\ b \in sch.bookings
                            /\ ~sendsToday(b)
                            /\ sch.scheduled_date = now + 1
                            /\ ~st.db[b].follow_up_sent
    IN  Tables([b \in DOMAIN st.db |->
                    IF sendsToday(b) THEN [st.db[b] EXCEPT !.reminder_sent = TRUE]
                    ELSE IF sendsTomorrow(b) THEN [st.db[b] EXCEPT !.follow_up_sent = TRUE]
                    ELSE st.db[b]],
               [b \in DOMAIN st.today |->
                    IF sendsToday(b) THEN st.today[b] + 1 ELSE st.today[b]],
               [b \in DOMAIN st.tomorrow |->
                    IF sendsTomorrow(b) THEN st.tomorrow[b] + 1 ELSE st.tomorrow[b]],
               [b \in DOMAIN st.delivered |->
                    IF sendsToday(b) /\ b \notin undelivered
                    THEN st.delivered[b] + 1 ELSE st.delivered[b]])

\* Variant: the schedule is not applied when the membership changes.
bookings_changed_no_apply(st, sch, now, undelivered) ==
    check_and_send_service_reminders(
        check_and_send_service_reminders(st, sch, now, undelivered),
        sch, now, undelivered)

\* The receivers of m2m_changed (post_add, post_remove), in the order they
\* are connected: apply_schedule_on_bookings_changed (signals.py:158-171)
\* applies the schedule and saves the batch, whose post_save runs
\* check_and_send_service_reminders; then check_and_send_service_reminders
\* runs as a receiver of m2m_changed itself.
bookings_changed(st, sch, now, undelivered) ==
    LET applied == [st EXCEPT !.db = apply_schedule(st.db, sch, now, undelivered)]
    IN  check_and_send_service_reminders(
            check_and_send_service_reminders(applied, sch, now, undelivered),
            sch, now, undelivered)

\* Variant: set() announces the removal with the members as they were
\* before it.
save_related_stale(st, sch, members, now, undelivered) ==
    LET removed == sch.bookings \ members
        added == members \ sch.bookings
        s1 == IF removed = {} THEN st
              ELSE bookings_changed(st, sch, now, undelivered)
    IN  IF added = {} THEN s1
        ELSE bookings_changed(s1, [sch EXCEPT !.bookings = members], now, undelivered)

\* ModelAdmin.save_related: bookings.set(members) removes the members that
\* are gone, then adds the new ones; each non-empty change sends m2m_changed.
save_related(st, sch, members, now, undelivered) ==
    LET removed == sch.bookings \ members
        added == members \ sch.bookings
        s1 == IF removed = {} THEN st
              ELSE bookings_changed(st, [sch EXCEPT !.bookings = @ \ removed],
                                    now, undelivered)
    IN  IF added = {} THEN s1
        ELSE bookings_changed(s1, [sch EXCEPT !.bookings = members], now, undelivered)

\* Bookings as the admin finds them: created, perhaps cancelled since, none
\* with a slot; no batch yet.
InitBatch ==
    /\ today = 1
    /\ booking \in [Bookings -> {[NoBooking EXCEPT !.exists = TRUE, !.status = st,
                                                   !.preferred_date = today] :
                                    st \in {"pending", "cancelled"}}]
    /\ vehicle = NewVehicle
    /\ last = NoCall
    /\ schedule = [s \in {"s1"} |-> NoSchedule]
    /\ todayMail = NoMail
    /\ tomorrowMail = NoMail
    /\ todayDelivered = NoMail
    /\ receivedMail = NoMail
    /\ runs = 0
    /\ IdleRequests

\* The members of a batch as a form submission finds them.
Found(db, members) ==
    LET bs == SeqOf(members) IN Seen([i \in 1..Len(bs) |-> db[bs[i]]])

\* What a handler chain leaves in the tables.
Store(st) ==
    /\ booking' = st.db
    /\ todayMail' = st.today
    /\ tomorrowMail' = st.tomorrow
    /\ todayDelivered' = st.delivered

\* The admin add form of ScheduleService (admin.py:578-585): save_model
\* sets scheduled_by, saves the new row and applies the schedule while the
\* batch has no member yet; save_related then stores the chosen bookings.
AdminAddSchedule(s, date, time, center, by, members, undelivered) ==
    /\ ~schedule[s].exists
    /\ LET sch == [exists |-> TRUE, scheduled_date |-> date, scheduled_time |-> time,
                   service_center |-> center, scheduled_by |-> Some(by),
                   bookings |-> {}]
           st0 == Tables(apply_schedule(booking, sch, today, undelivered),
                         todayMail, tomorrowMail, todayDelivered)
       IN  /\ Store(save_related(st0, sch, members, today, undelivered))
           /\ schedule' = [schedule EXCEPT ![s] = [sch EXCEPT !.bookings = members]]
    /\ last' = Call("add_schedule", s, TRUE, Found(booking, members))
    /\ UNCHANGED <<vehicle, today, receivedMail, runs, reqVars>>

\* The admin change form of ScheduleService: save_model saves the edited
\* row (post_save, created = False: check_and_send_service_reminders and no
\* apply), save_related then stores the chosen bookings.
AdminChangeSchedule(s, date, time, center, members, undelivered) ==
    /\ schedule[s].exists
    /\ LET sch == [schedule[s] EXCEPT !.scheduled_date = date, !.scheduled_time = time,
                                      !.service_center = center]
           st0 == check_and_send_service_reminders(
                        Tables(booking, todayMail, tomorrowMail, todayDelivered),
                        sch, today, undelivered)
       IN  /\ Store(save_related(st0, sch, members, today, undelivered))
           /\ schedule' = [schedule EXCEPT ![s] = [sch EXCEPT !.bookings = members]]
    /\ last' = Call("change_schedule", s, TRUE, Found(booking, members))
    /\ UNCHANGED <<vehicle, today, receivedMail, runs, reqVars>>

\* The slots the admin form is filled in with.
BatchSlots(now) ==
    {[date |-> now + 1, time |-> 9, center |-> Some("center")],
     [date |-> now, time |-> 10, center |-> Null]}

\* The mail transport during one form submission: up, or down for everyone.
Transport == {{}, Bookings}

NextBatch ==
    \/ \E s \in DOMAIN schedule, slot \in BatchSlots(today), by \in Users,
          members \in SUBSET Bookings, undelivered \in Transport :
            AdminAddSchedule(s, slot.date, slot.time, slot.center, by,
                             members, undelivered)
    \/ \E s \in DOMAIN schedule, slot \in BatchSlots(today),
          members \in SUBSET Bookings, undelivered \in Transport :
            AdminChangeSchedule(s, slot.date, slot.time, slot.center,
                                members, undelivered)
    \/ \E b \in DOMAIN booking : Cancel(b)

SpecBatch == InitBatch /\ [][NextBatch]_vars

\* --------------------------------------------- the vehicle's properties
\* The readings a vehicle can be registered or edited with (admin.py:367
\* lists the service columns as editable; serializers.py:690-694 rejects a
\* negative odometer only).
Readings == {0} \cup Odometers
Dates == 0..(MaxDay + 1)
NullOr(S) == {Null} \cup {Some(x) : x \in S}

\* Any vehicle row, on any day; nothing has been read yet.
InitVehicle ==
    /\ today \in Days
    /\ \E w \in BOOLEAN, e \in NullOr(Dates), g \in BOOLEAN, c \in Readings,
          l \in NullOr(Readings), k \in NullOr(Readings), d \in NullOr(Dates) :
            vehicle = [NewVehicle EXCEPT !.has_warranty = w,
                                         !.warranty_end_date = e,
                                         !.is_eligible_for_10000km_service = g,
                                         !.current_odometer = c,
                                         !.last_service_odometer = l,
                                         !.next_service_due_km = k,
                                         !.next_service_due_date = d]
    /\ booking = [b \in {"b1"} |-> NoBooking]
    /\ last = NoCall
    /\ IdleSweep
    /\ IdleRequests

\* The vehicle list of the admin (admin.py:349) reads the properties of the
\* row: what `last` keeps is what they returned.
ReadVehicle ==
    /\ last' = [op |-> "read_vehicle", b |-> "none", ok |-> TRUE, writes |-> <<>>,
                is_warranty_valid |-> is_warranty_valid(vehicle, today),
                needs_10000km_service |-> needs_10000km_service(vehicle, today),
                kilometers_since_last_service |->
                    kilometers_since_last_service(vehicle)]
    /\ UNCHANGED <<dbVars, today, receivedMail, sweepVars, reqVars>>

NextVehicle == ReadVehicle

SpecVehicle == InitVehicle /\ [][NextVehicle]_vars

\* ------------------------------------------------------ the slots of a day
\* ServiceAvailabilityView offers the hours of range(9, 17) (views.py:893).
SlotHours == 9..16

\* The statuses whose bookings hold their slot (views.py:890).
BookedStatuses == {"confirmed", "scheduled", "in_progress"}

\* Variant: a pending booking holds its slot too.
available_slots_pending(db, date, now) ==
    IF date < now THEN {}
    ELSE LET booked_slots ==
                {db[b].scheduled_time : b \in
                    {x \in DOMAIN db : /\ db[x].exists
                                       /\ db[x].scheduled_date = Some(date)
                                       /\ db[x].status \in BookedStatuses \cup {"pending"}}}
         IN  {hour \in SlotHours : Some(hour) \notin booked_slots}

\* ServiceAvailabilityView.get for a well-formed date (views.py:880-904):
\* nothing for a past date, otherwise the hours no booked slot names.
available_slots(db, date, now) ==
    IF date < now THEN {}
    ELSE LET booked_slots ==
                {db[b].scheduled_time : b \in
                    {x \in DOMAIN db : /\ db[x].exists
                                       /\ db[x].scheduled_date = Some(date)
                                       /\ db[x].status \in BookedStatuses}}
         IN  {hour \in SlotHours : Some(hour) \notin booked_slots}

\* The times the schedule endpoint is called with: it takes any '%H:%M'
\* (views.py:985).
SlotTimes == {9, 10}

\* Two bookings of the vehicle, as created.
InitSlots ==
    /\ today = 1
    /\ booking = [b \in Bookings |-> NewRow("routine_maintenance", today)]
    /\ vehicle = NewVehicle
    /\ last = NoCall
    /\ IdleSweep
    /\ IdleRequests

\* GET of ServiceAvailabilityView (views.py:862-904).
Availability(date) ==
    /\ last' = [op |-> "availability", b |-> "none", ok |-> TRUE, writes |-> <<>>,
                date |-> date,
                available_slots |-> available_slots(booking, date, today)]
    /\ UNCHANGED <<dbVars, today, receivedMail, sweepVars, reqVars>>

NextSlots ==
    \/ \E b \in DOMAIN booking, d \in Days, t \in SlotTimes, by \in Users :
            ScheduleService(b, d, t, by, Null, TRUE, TRUE)
    \/ \E b \in DOMAIN booking : Cancel(b)
    \/ \E b \in DOMAIN booking, s \in BOOKING_STATUS_CHOICES :
            AdminChangeStatus(b, s, TRUE)
    \/ \E d \in 0..MaxDay : Availability(d)

SpecSlots == InitSlots /\ [][NextSlots]_vars

\* ------------------------------------------------ the life of one booking
\* Deleting the row ServiceBooking.vehicle points to (the destroy action of
\* the ModelViewSet, views.py:36, or the admin): on_delete = CASCADE
\* (models.py:925-929) deletes every booking of the vehicle with it, and
\* with the bookings their rows in the bookings relation of the batches.
DeleteVehicle ==
    /\ vehicle.exists
    /\ vehicle' = [vehicle EXCEPT !.exists = FALSE]
    /\ booking' = [b \in DOMAIN booking |-> NoBooking]
    /\ schedule' = [s \in DOMAIN schedule |-> [schedule[s] EXCEPT !.bookings = {}]]
    /\ last' = Call("delete_vehicle", "none", TRUE, <<>>)
    /\ UNCHANGED <<today, receivedMail, todayMail, tomorrowMail, todayDelivered,
                   runs, reqVars>>

\* A vehicle with any odometer, eligible for the 10,000 km service or not,
\* and no booking yet.
InitLifecycle ==
    /\ today = 1
    /\ booking = [b \in {"b1"} |-> NoBooking]
    /\ \E c \in Readings, g \in BOOLEAN :
            vehicle = [NewVehicle EXCEPT !.current_odometer = c,
                                         !.is_eligible_for_10000km_service = g]
    /\ last = NoCall
    /\ IdleSweep
    /\ IdleRequests

\* Creation, then schedule_service, complete_service and the cancel
\* endpoint in any order, between them the daily sweep, the reading of the
\* vehicle's properties and the deletion of the vehicle.
NextLifecycle ==
    \/ \E b \in DOMAIN booking, pref \in today..MaxDay : Create(b, pref)
    \/ \E b \in DOMAIN booking, d \in Days, t \in Hours, by \in Users,
          m1 \in BOOLEAN, m2 \in BOOLEAN :
            ScheduleService(b, d, t, by, Null, m1, m2)
    \/ \E b \in DOMAIN booking, by \in Users, f \in Odometers, cost \in Costs :
            CompleteService(b, by, f, cost)
    \/ \E b \in DOMAIN booking : Cancel(b)
    \/ \E undelivered \in {{}, Bookings} : SendDailyServiceReminders(undelivered)
    \/ vehicle.exists /\ ReadVehicle
    \/ DeleteVehicle

SpecLifecycle == InitLifecycle /\ [][NextLifecycle]_vars

\* ------------------------------------------------- the reminder flags
\* Everything that saves a booking once batches exist: the batch forms
\* with the transport up, schedule_service, complete_service, the cancel
\* endpoint and the daily sweep.
NextFlags ==
    \/ \E s \in DOMAIN schedule, slot \in BatchSlots(today), by \in Users,
          members \in SUBSET Bookings :
            AdminAddSchedule(s, slot.date, slot.time, slot.center, by, members, {})
    \/ \E s \in DOMAIN schedule, slot \in BatchSlots(today),
          members \in SUBSET Bookings :
            AdminChangeSchedule(s, slot.date, slot.time, slot.center, members, {})
    \/ \E b \in DOMAIN booking, by \in Users :
            ScheduleService(b, today + 2, 9, by, Null, TRUE, TRUE)
    \/ \E b \in DOMAIN booking, by \in Users :
            CompleteService(b, by, ServiceIntervalKm, "none")
    \/ \E b \in DOMAIN booking : Cancel(b)
    \/ SendDailyServiceReminders({})

SpecFlags == InitBatch /\ [][NextFlags]_vars

\* ================================================================= claims
Row(b) == booking[b]
RowAfter(b) == booking'[b]

\* C1: schedule_service succeeds only from pending, confirmed or
\* rescheduled; from any other status it raises and every column of the
\* booking (and the vehicle) keeps its value.
C1_ScheduleGuard ==
    [][last'.op = "schedule" =>
        /\ last'.ok => Row(last'.b).status \in {"pending", "confirmed", "rescheduled"}
        /\ Row(last'.b).status \notin {"pending", "confirmed", "rescheduled"} =>
              ~last'.ok /\ booking' = booking /\ vehicle' = vehicle]_vars

\* schedule_service was refused on a completed booking that holds a slot.
C1_Witness ==
    /\ last.op = "schedule" /\ ~last.ok
    /\ Row(last.b).status = "completed" /\ is_scheduled(Row(last.b))

\* C2 (as claimed): for every booking, is_scheduled holds exactly when the
\* status is 'scheduled'.
C2_IsScheduledIffStatus ==
    \A b \in DOMAIN booking :
        Row(b).exists => (is_scheduled(Row(b)) <=> Row(b).status = "scheduled")

\* C3: a schedule_service call that returns leaves the booking with
\* is_scheduled and status 'scheduled' together, and so does every row the
\* call persisted on the way.
C3_ScheduledTogether ==
    (last.op = "schedule" /\ last.ok) =>
        /\ is_scheduled(Row(last.b)) /\ Row(last.b).status = "scheduled"
        /\ Len(last.writes) >= 1
        /\ \A i \in 1..Len(last.writes) : last.writes[i] = <<"scheduled", TRUE>>

\* schedule_service returned after persisting more than one row (the save
\* and a confirmation_sent update).
C3_Witness ==
    /\ last.op = "schedule" /\ last.ok
    /\ Len(last.writes) >= 2
    /\ Row(last.b).confirmation_sent

\* C4: complete_service goes through only from scheduled or in_progress;
\* from any other status it fails and writes neither booking nor vehicle.
C4_CompleteGuard ==
    [][last'.op = "complete" =>
        /\ last'.ok => Row(last'.b).status \in {"scheduled", "in_progress"}
        /\ Row(last'.b).status \notin {"scheduled", "in_progress"} =>
              ~last'.ok /\ booking' = booking /\ vehicle' = vehicle]_vars

\* complete_service was refused on a pending booking of a vehicle that an
\* earlier completion had already updated.
C4_Witness ==
    /\ last.op = "complete" /\ ~last.ok
    /\ Row(last.b).status = "pending"
    /\ vehicle.last_service_odometer # Null

\* C5: after a complete_service that returns, with final odometer F, the
\* booking is completed and the vehicle has last_service_odometer = F,
\* next_service_due_km = F + 10000, last_service_date = today and
\* next_service_due_date = today + 365.
C5_CascadeValues ==
    (last.op = "complete" /\ last.ok) =>
        /\ Row(last.b).status = "completed"
        /\ Row(last.b).final_odometer # Null
        /\ vehicle.last_service_odometer = Row(last.b).final_odometer
        /\ vehicle.next_service_due_km = Some(Row(last.b).final_odometer[1] + 10000)
        /\ vehicle.last_service_date = Some(today)
        /\ vehicle.next_service_due_date = Some(today + 365)

\* A completion with final odometer 5000 went through: the next service is
\* due at 15000.
C5_Witness ==
    /\ last.op = "complete" /\ last.ok
    /\ Row(last.b).final_odometer = Some(5000)
    /\ vehicle.next_service_due_km = Some(15000)
    /\ Row(last.b).completed_at = Some(today)

\* C6 (as claimed): a complete_service call either persists both the
\* completed booking and the vehicle cascade, or neither.
C6_CompleteAtomic ==
    [][last'.op = "complete" =>
        \/ /\ last'.ok
           /\ RowAfter(last'.b).status = "completed"
           /\ vehicle'.last_service_odometer = RowAfter(last'.b).final_odometer
        \/ /\ ~last'.ok
           /\ booking' = booking /\ vehicle' = vehicle]_vars

\* C8 (as claimed): once completed, cancelled or no_show, no later
\* schedule_service, complete_service, cancel or admin bulk action changes
\* the status.
C8_TerminalStatuses ==
    [][\A b \in DOMAIN booking :
        (/\ Row(b).exists
         /\ Row(b).status \in {"completed", "cancelled", "no_show"}
         /\ last'.op \in {"schedule", "complete", "cancel",
                          "mark_as_scheduled", "mark_as_completed"})
        => RowAfter(b).status = Row(b).status]_vars

\* C9 (as claimed): cancel goes through exactly from pending, confirmed,
\* scheduled or rescheduled, setting 'cancelled'; otherwise it is refused
\* and the status stays.
C9_CancelGuard ==
    [][last'.op = "cancel" =>
        IF Row(last'.b).status \in {"pending", "confirmed", "scheduled", "rescheduled"}
        THEN last'.ok /\ RowAfter(last'.b).status = "cancelled"
        ELSE ~last'.ok /\ RowAfter(last'.b).status = Row(last'.b).status]_vars

\* The vehicle after request r alone has run on vehicle row v.
RunAlone(v, r) ==
    IF pc[r] = "done"
    THEN update_service_info(v, ServiceTypeLabel(req[r].obj), req[r].odo, today)
    ELSE v

\* C7: when two complete requests for two bookings of one vehicle have
\* interleaved and both returned, the vehicle's service columns are those
\* one of the two serial orders gives (otherwise one request was answered
\* with an error).
C7_SerialOutcome ==
    (\A r \in Requests : pc[r] \in {"done", "failed"}) =>
        \/ \E r \in Requests : pc[r] = "failed"
        \/ vehicle \in {RunAlone(RunAlone(veh0, "r1"), "r2"),
                        RunAlone(RunAlone(veh0, "r2"), "r1")}

\* Both requests returned, with different odometers, and r1 read the
\* vehicle before r2 wrote it but wrote it after r2 did.
C7_Witness ==
    /\ pc["r1"] = "done" /\ pc["r2"] = "done"
    /\ req["r1"].odo # req["r2"].odo
    /\ req["r1"].veh.last_service_odometer = vehicle.last_service_odometer
    /\ veh0.last_service_odometer # Null

\* C10 (as claimed): however many sweeps run one after another on one day,
\* no booking is sent more than one 'today' and one 'tomorrow' reminder.
C10_AtMostOneReminder ==
    \A b \in Bookings : todayMail[b] <= 1 /\ tomorrowMail[b] <= 1

\* C11 (as claimed): when two runs of the sweep overlap, no booking is sent
\* two 'today' or two 'tomorrow' reminders.
C11_OverlapNoDoubleSend ==
    (\A r \in Requests : pc[r] # "idle") =>
        \A b \in Bookings : todayMail[b] < 2 /\ tomorrowMail[b] < 2

\* C12 (as claimed): a 'today' reminder goes only to a booking that has
\* reminder_sent unset and status 'scheduled' and whose batch is dated today
\* (or, without a batch, whose preferred_date is today), and the send leaves
\* reminder_sent set.
C12_TodayReminderGuard ==
    [][\A b \in Bookings :
        todayMail'[b] > todayMail[b] =>
            /\ ~Row(b).reminder_sent
            /\ RowAfter(b).status = "scheduled"
            /\ \/ \E s \in DOMAIN schedule :
                    /\ b \in schedule[s].bookings \cup schedule'[s].bookings
                    /\ schedule'[s].scheduled_date = today
               \/ /\ \A s \in DOMAIN schedule : b \notin schedule[s].bookings
                  /\ Row(b).preferred_date = today
            /\ RowAfter(b).reminder_sent]_vars

\* The bookings of the batches dated today.
TodayMembers ==
    {b \in Bookings : \E s \in DOMAIN schedule :
        /\ schedule[s].exists
        /\ schedule[s].scheduled_date = today
        /\ b \in schedule[s].bookings}

\* C13 (as claimed): once a sweep has run, every scheduled booking of a
\* batch dated today has had its 'today' reminder delivered exactly once,
\* and no booking has reminder_sent set with no reminder delivered.
C13_TodayDeliveredOnce ==
    runs >= 1 =>
        /\ \A b \in TodayMembers :
                Row(b).status = "scheduled" => todayDelivered[b] = 1
        /\ \A b \in Bookings : Row(b).reminder_sent => todayDelivered[b] >= 1

\* The schedule columns of booking row bk are those of batch sch (the
\* center when the batch names one).
HasSlotOf(bk, sch) ==
    /\ bk.scheduled_date = Some(sch.scheduled_date)
    /\ bk.scheduled_time = Some(sch.scheduled_time)
    /\ bk.scheduled_by = sch.scheduled_by
    /\ sch.service_center # Null => bk.service_center = sch.service_center
    /\ bk.status = "scheduled"

C19_MembershipChange ==
    [][(/\ last'.op \in {"add_schedule", "change_schedule"}
        /\ schedule'[last'.b].bookings # schedule[last'.b].bookings)
       => /\ \A b \in schedule'[last'.b].bookings :
                /\ RowAfter(b).scheduled_date = Some(schedule'[last'.b].scheduled_date)
                /\ RowAfter(b).scheduled_time = Some(schedule'[last'.b].scheduled_time)
                /\ RowAfter(b).status = "scheduled"
          /\ \A b \in Bookings \ schedule'[last'.b].bookings :
                /\ RowAfter(b).scheduled_date = Row(b).scheduled_date
                /\ RowAfter(b).scheduled_time = Row(b).scheduled_time
                /\ RowAfter(b).status = Row(b).status]_vars

\* A booking was removed from a batch whose slot was edited in the same
\* submission: the booking kept the old slot, the remaining member has the
\* new one.
C19_Witness ==
    /\ last.op = "change_schedule"
    /\ \E b \in Bookings, c \in Bookings :
        /\ schedule[last.b].bookings = {c}
        /\ b # c
        /\ is_scheduled(Row(b)) /\ Row(b).status = "scheduled"
        /\ Row(b).scheduled_date # Some(schedule[last.b].scheduled_date)
        /\ HasSlotOf(Row(c), schedule[last.b])

\* C20: applying a batch a second time, with the membership unchanged,
\* leaves scheduled_date, scheduled_time, service_center and status of every
\* member as the first apply left them.
C20_ApplyIdempotent ==
    \A s \in DOMAIN schedule : \A u1 \in Transport, u2 \in Transport :
        schedule[s].exists =>
            LET once == apply_schedule(booking, schedule[s], today, u1)
                twice == apply_schedule(once, schedule[s], today, u2)
            IN  \A b \in schedule[s].bookings :
                    /\ twice[b].scheduled_date = once[b].scheduled_date
                    /\ twice[b].scheduled_time = once[b].scheduled_time
                    /\ twice[b].service_center = once[b].service_center
                    /\ twice[b].status = once[b].status
                    /\ once[b].status = "scheduled"

\* A batch whose slot was edited after its member was scheduled and
\* cancelled: an apply changes the member's row, a second one does not.
C20_Witness ==
    \E s \in DOMAIN schedule : \E b \in schedule[s].bookings :
        /\ schedule[s].exists
        /\ Row(b).status = "cancelled"
        /\ is_scheduled(Row(b))
        /\ Row(b).scheduled_date # Some(schedule[s].scheduled_date)
        /\ apply_schedule(booking, schedule[s], today, {})[b] # Row(b)

\* C14 (as claimed): a creation request whose preferred_date is before
\* today fails, through either endpoint, and no booking is persisted.
C14_PastDateRejected ==
    [][(last'.op = "create" /\ last'.past) =>
            ~last'.ok /\ booking' = booking]_vars

\* C15 (as claimed): a neta_warranty booking is persisted with
\* warranty_covered = (NETA car and warranty valid and days until expiry
\* > 0), and with priority 'warranty' when covered.
C15_WarrantyCovered ==
    [][(last'.op = "create" /\ last'.ok
        /\ RowAfter(last'.b).service_type = "neta_warranty") =>
            /\ RowAfter(last'.b).warranty_covered =
                    (/\ vehicle.is_neta_car
                     /\ is_warranty_valid(vehicle, today)
                     /\ days_until_warranty_expires(vehicle, today) > 0)
            /\ RowAfter(last'.b).warranty_covered =>
                    RowAfter(last'.b).priority = "warranty"]_vars

\* C16 (as claimed): a creation that succeeds sends one 'booking received'
\* mail, and no operation on an existing booking sends another.
C16_OneBookingReceived ==
    [][/\ (last'.op = "create" /\ last'.ok) => receivedMail'[last'.b] = 1
       /\ \A b \in DOMAIN booking :
            Row(b).exists => receivedMail'[b] = receivedMail[b]]_vars

\* C17 (as claimed): whatever the mail transport does, a create with
\* input that validates, a schedule_service on a booking that can be
\* scheduled and a complete_service on a booking that can be completed
\* (with a well-formed cost) return success and their changes are persisted.
C17_MailFailureContained ==
    [][/\ (last'.op = "create" /\ last'.valid) =>
            last'.ok /\ RowAfter(last'.b).exists
       /\ (last'.op = "schedule"
           /\ Row(last'.b).status \in {"pending", "confirmed", "rescheduled"}) =>
            last'.ok /\ RowAfter(last'.b).status = "scheduled"
       /\ (last'.op = "complete"
           /\ Row(last'.b).status \in {"scheduled", "in_progress"}) =>
            /\ last'.ok /\ RowAfter(last'.b).status = "completed"
            /\ vehicle'.last_service_odometer = RowAfter(last'.b).final_odometer]_vars

\* C22: is_warranty_valid is (has_warranty and now <= warranty_end_date),
\* true still on the end date itself and false when no end date is set.
C22_WarrantyValid ==
    last.op = "read_vehicle" =>
        last.is_warranty_valid =
            (/\ vehicle.has_warranty
             /\ vehicle.warranty_end_date # Null
             /\ today <= vehicle.warranty_end_date[1])

\* The property was read on the last day of the warranty.
C22_Witness ==
    /\ last.op = "read_vehicle"
    /\ vehicle.has_warranty
    /\ vehicle.warranty_end_date = Some(today)
    /\ last.is_warranty_valid

\* C23: for an eligible vehicle needs_10000km_service is true exactly when
\* a set last_service_odometer lies 10000 km or more behind the odometer,
\* or a set next_service_due_km has been reached, or a set
\* next_service_due_date has come, a set value of 0 counting as set; for a
\* vehicle that is not eligible it is false.
C23_NeedsService ==
    last.op = "read_vehicle" =>
        last.needs_10000km_service =
            (/\ vehicle.is_eligible_for_10000km_service
             /\ \/ /\ vehicle.last_service_odometer # Null
                   /\ vehicle.current_odometer - vehicle.last_service_odometer[1]
                        >= ServiceIntervalKm
                \/ /\ vehicle.next_service_due_km # Null
                   /\ vehicle.current_odometer >= vehicle.next_service_due_km[1]
                \/ /\ vehicle.next_service_due_date # Null
                   /\ today >= vehicle.next_service_due_date[1])

\* C21: for a date that is not past, the availability query answers the
\* hours 9..16 without the scheduled_time of the bookings of that date
\* whose status is confirmed, scheduled or in_progress; an hour that only
\* bookings of another status name is answered as free.
C21_AvailableSlots ==
    (last.op = "availability" /\ last.date >= today) =>
        \A hour \in 9..16 :
            hour \in last.available_slots <=>
                ~\E b \in DOMAIN booking :
                    /\ booking[b].exists
                    /\ booking[b].scheduled_date = Some(last.date)
                    /\ booking[b].scheduled_time = Some(hour)
                    /\ booking[b].status \in {"confirmed", "scheduled", "in_progress"}

\* The query was answered for a day on which one booking holds an hour and
\* a cancelled booking names another: the first hour is missing from the
\* answer, the second is in it.
C21_Witness ==
    /\ last.op = "availability" /\ last.date >= today
    /\ \E b, c \in DOMAIN booking :
        /\ booking[b].status = "scheduled"
        /\ booking[b].scheduled_date = Some(last.date)
        /\ booking[b].scheduled_time # Null
        /\ booking[b].scheduled_time[1] \notin last.available_slots
        /\ booking[c].status = "cancelled"
        /\ booking[c].scheduled_date = Some(last.date)
        /\ booking[c].scheduled_time # Null
        /\ booking[c].scheduled_time[1] \in last.available_slots

\* C27: no two bookings whose status is confirmed, scheduled or
\* in_progress hold the same scheduled_date and scheduled_time.
C27_NoDoubleBooking ==
    \A b, c \in DOMAIN booking :
        (/\ b # c
         /\ booking[b].exists /\ booking[c].exists
         /\ booking[b].status \in {"confirmed", "scheduled", "in_progress"}
         /\ booking[c].status \in {"confirmed", "scheduled", "in_progress"}
         /\ is_scheduled(booking[b]))
        => \/ booking[b].scheduled_date # booking[c].scheduled_date
           \/ booking[b].scheduled_time # booking[c].scheduled_time

C25_NoDeleteWithOpenBooking ==
    [][(vehicle.exists /\ ~vehicle'.exists) =>
        \A b \in DOMAIN booking :
            (/\ booking[b].exists
             /\ booking[b].status \in {"pending", "confirmed", "scheduled",
                                       "in_progress", "rescheduled"})
            => booking'[b].exists]_vars

\* C26: one successful schedule_service call hands the 'schedule
\* confirmed' mail to the transport exactly once, the send inside save()
\* and the explicit send counted together.
C26_OneConfirmation ==
    (last.op = "schedule" /\ last.ok) => last.confirmations = 1

\* C28: after a successful complete_service the vehicle's
\* last_service_odometer is not above its current_odometer, so that
\* kilometers_since_last_service is not negative.
C28_ServiceOdometer ==
    (last.op = "complete" /\ last.ok) =>
        /\ vehicle.last_service_odometer # Null
        /\ vehicle.last_service_odometer[1] <= vehicle.current_odometer
        /\ \/ kilometers_since_last_service(vehicle) = Null
           \/ kilometers_since_last_service(vehicle)[1] >= 0

\* C30: from creation on, under schedule_service, complete_service and
\* the cancel endpoint a booking is pending, scheduled, completed or
\* cancelled, and a scheduled booking does not become pending again.
C30_LifecycleStatuses ==
    [][\A b \in DOMAIN booking :
        booking'[b].exists =>
            /\ booking'[b].status \in {"pending", "scheduled", "completed", "cancelled"}
            /\ ~(/\ booking[b].exists /\ booking[b].status = "scheduled"
                 /\ booking'[b].status = "pending")]_vars

\* A booking went through creation, schedule_service and complete_service.
C30_Witness ==
    /\ last.op = "complete" /\ last.ok
    /\ booking["b1"].status = "completed"
    /\ is_scheduled(booking["b1"])

\* C29: a reminder flag that is true stays true: no step of
\* schedule_service, a batch form (apply, membership change),
\* complete_service, cancel or the sweep takes reminder_sent or
\* follow_up_sent of a booking from true to false, and a booking whose
\* flag is true is sent no further reminder of that kind, whatever date
\* it is scheduled for afterwards.
C29_FlagsMonotone ==
    [][\A b \in DOMAIN booking :
        /\ booking[b].reminder_sent =>
                /\ booking'[b].reminder_sent
                /\ todayMail'[b] = todayMail[b]
        /\ booking[b].follow_up_sent =>
                /\ booking'[b].follow_up_sent
                /\ tomorrowMail'[b] = tomorrowMail[b]]_vars

\* A booking that was reminded for today is, through the batch form, now
\* scheduled for tomorrow, its flag still set and one reminder sent.
C29_Witness ==
    /\ last.op = "change_schedule"
    /\ \E b \in DOMAIN booking :
        /\ booking[b].reminder_sent
        /\ todayMail[b] = 1
        /\ booking[b].scheduled_date = Some(today + 1)

====
